---------------------------- MODULE Spec2Model ----------------------------
(***************************************************************************)
(* Model of the OUI lookup service (src/main.go): the loader               *)
(* makeMACHashMap, the lookups ListOUIs, GetOUI and GetVendorFromMAC, the  *)
(* HTTP handlers around them and the start-up order of main.               *)
(*                                                                         *)
(* A Go string is modelled as a sequence of characters, each character a   *)
(* one-character TLA+ string; "U00E9" and "U00C9" stand for the non-ASCII  *)
(* letters e-acute and E-acute.                                            *)
(***************************************************************************)
EXTENDS Integers, Sequences, FiniteSets, TLC

(***************************************************************************)
(* Bounds of the model.                                                    *)
(***************************************************************************)
\* Largest number of lines of the source file oui.txt.
MaxLines == 4

\* Number of concurrent HTTP callers in SpecConc.
NumClients == 2

(***************************************************************************)
(* Program constants.                                                      *)
(***************************************************************************)
\* {6} in the OUI group of ouiExp and macToFind[:6].
OUILen == 6

\* len(mac) != 12 in normalizeMac.
MACLen == 12

\* bitSize argument of strconv.ParseInt(oui, 16, 48).
ParseBitSize == 48

StatusOK == 200

StatusNotFound == 404

(***************************************************************************)
(* Characters and character classes.                                       *)
(***************************************************************************)
LowerLetters ==
    << "a", "b", "c", "d", "e", "f", "g", "h", "i", "j", "k", "l", "m",
       "n", "o", "p", "q", "r", "s", "t", "u", "v", "w", "x", "y", "z" >>

UpperLetters ==
    << "A", "B", "C", "D", "E", "F", "G", "H", "I", "J", "K", "L", "M",
       "N", "O", "P", "Q", "R", "S", "T", "U", "V", "W", "X", "Y", "Z" >>

Digits == {"0", "1", "2", "3", "4", "5", "6", "7", "8", "9"}

Range(f) == {f[i] : i \in DOMAIN f}

NL == "\n"

\* \s of Go's regexp syntax: [\t\n\f\r ].
RegexSpace == {" ", "\t", "\n", "\f", "\r"}

\* The class [0-9a-zA-Z]: HexClass as it would be if the expression
\* accepted every letter.
AlnumClass(c) ==
    c \in Digits \cup Range(LowerLetters) \cup Range(UpperLetters)

\* The class [0-9a-fA-F] of ouiExp.
HexClass(c) ==
    c \in Digits \cup {"a", "b", "c", "d", "e", "f"}
                 \cup {"A", "B", "C", "D", "E", "F"}

\* The digits strconv.ParseInt accepts in base 16.
IsBase16Digit(c) ==
    c \in Digits \cup {"a", "b", "c", "d", "e", "f"}
                 \cup {"A", "B", "C", "D", "E", "F"}

\* The class [a-zA-Z0-9 ] whose complement normalizeMac deletes.
MacKeepClass(c) ==
    c \in Digits \cup Range(LowerLetters) \cup Range(UpperLetters) \cup {" "}

\* unicode.ToUpper on one character.
ToUpperChar(c) ==
    IF \E i \in DOMAIN LowerLetters : LowerLetters[i] = c
    THEN UpperLetters[CHOOSE i \in DOMAIN LowerLetters : LowerLetters[i] = c]
    ELSE IF c = "U00E9" THEN "U00C9" ELSE c

\* strings.ToUpper.
ToUpper(s) == [i \in 1..Len(s) |-> ToUpperChar(s[i])]

\* strings.TrimSpace: drop leading and trailing white space.
TrimSpace(s) ==
    LET White == RegexSpace
        Idx   == {i \in 1..Len(s) : s[i] \notin White}
        Min   == CHOOSE i \in Idx : \A j \in Idx : i <= j
        Max   == CHOOSE i \in Idx : \A j \in Idx : j <= i
    IN  IF Idx = {} THEN << >> ELSE SubSeq(s, Min, Max)

(***************************************************************************)
(* strconv.ParseInt(s, 16, 48) succeeds: an optional sign, at least one    *)
(* base-16 digit, nothing else, and a value that fits in 48 signed bits.   *)
(* 48 bits are 12 base-16 digits; the value fits when, leading zeros       *)
(* apart, it has fewer than 12 digits, or 12 digits and a first digit      *)
(* below 8 (the value -2^47 apart, which no 6-digit input reaches).        *)
(***************************************************************************)
ParseIntOK(s) ==
    LET body   == IF s # << >> /\ s[1] \in {"+", "-"} THEN Tail(s) ELSE s
        NonZ   == {i \in 1..Len(body) : body[i] # "0"}
        First  == CHOOSE i \in NonZ : \A j \in NonZ : i <= j
        Signif == IF NonZ = {} THEN 0 ELSE Len(body) - First + 1
        MaxDig == ParseBitSize \div 4
    IN  /\ body # << >>
        /\ \A i \in 1..Len(body) : IsBase16Digit(body[i])
        /\ \/ Signif < MaxDig
           \/ /\ Signif = MaxDig
              /\ body[First] \in {"0", "1", "2", "3", "4", "5", "6", "7"}

(***************************************************************************)
(* The regular expression ouiExp, matched as Go matches it (leftmost       *)
(* match, greedy quantifiers tried longest first):                         *)
(*   (?m)^([0-9a-fA-F]{2}(-[0-9a-fA-F]{2}){2})\s+\(hex\)\s+(.* )\n         *)
(*       ([0-9a-fA-F]{6})\s+\(base 16\)\s+(.* )$                           *)
(* Positions are 1-based indexes into the text t.                          *)
(***************************************************************************)
HexTag == << "(", "h", "e", "x", ")" >>

Base16Tag == << "(", "b", "a", "s", "e", " ", "1", "6", ")" >>

\* The literal lit stands in t at position i.
MatchLit(t, i, lit) ==
    /\ i + Len(lit) - 1 <= Len(t)
    /\ \A k \in 1..Len(lit) : t[i + k - 1] = lit[k]

\* [0-9a-fA-F]{2}(-[0-9a-fA-F]{2}){2} stands in t at position i.
MatchHexGroups(t, i) ==
    /\ i + 7 <= Len(t)
    /\ \A k \in {0, 1, 3, 4, 6, 7} : HexClass(t[i + k])
    /\ \A k \in {2, 5} : t[i + k] = "-"

\* [0-9a-fA-F]{6} stands in t at position i.
MatchOUI(t, i) ==
    /\ i + OUILen - 1 <= Len(t)
    /\ \A k \in 0..(OUILen - 1) : HexClass(t[i + k])

\* Length of the longest run of \s characters of t that starts at i.
SpaceRun(t, i) ==
    LET Stop == {j \in i..(Len(t) + 1) : j = Len(t) + 1 \/ t[j] \notin RegexSpace}
    IN  (CHOOSE j \in Stop : \A k \in Stop : j <= k) - i

\* Position where .* stops when it starts at i: the next newline or the
\* end of the text ('.' does not match a newline).
LineEnd(t, i) ==
    LET Stop == {j \in i..(Len(t) + 1) : j = Len(t) + 1 \/ t[j] = NL}
    IN  CHOOSE j \in Stop : \A k \in Stop : j <= k

NoMatch == [found |-> FALSE]

\* The part of ouiExp from the OUI group on, with the OUI group at p:
\* ([0-9a-fA-F]{6})\s+\(base 16\)\s+(.* )$ .  The two \s+ take their
\* longest run (what follows each cannot start with white space).
MatchBase16Part(t, p) ==
    IF ~MatchOUI(t, p) THEN NoMatch
    ELSE
      LET j4 == p + OUILen
          r3 == SpaceRun(t, j4)
          j5 == j4 + r3 + Len(Base16Tag)
          r4 == SpaceRun(t, j5)
          q2 == j5 + r4
          e2 == LineEnd(t, q2)
      IN  IF r3 >= 1 /\ MatchLit(t, j4 + r3, Base16Tag) /\ r4 >= 1
          THEN [found |-> TRUE, end |-> e2,
                OUI |-> SubSeq(t, p, p + OUILen - 1),
                vendorAlternateName |-> SubSeq(t, q2, e2 - 1)]
          ELSE NoMatch

\* The match of ouiExp that starts at position i of t, if there is one.
\* The \s+ after \(hex\) gives back characters one at a time until the
\* rest of the expression matches.
MatchAt(t, i) ==
    IF ~((i = 1 \/ t[i - 1] = NL) /\ MatchHexGroups(t, i)) THEN NoMatch
    ELSE
      LET j1 == i + 8
          r1 == SpaceRun(t, j1)
          j3 == j1 + r1 + Len(HexTag)
          r2 == SpaceRun(t, j3)
          \* with s characters taken by \s+, the vendor name runs from
          \* j3 + s to the end of that line and \n must follow it
          TailOf(s) ==
              LET e == LineEnd(t, j3 + s)
              IN  IF e <= Len(t) THEN MatchBase16Part(t, e + 1) ELSE NoMatch
          Good == {s \in 1..r2 : TailOf(s).found}
          s0 == CHOOSE s \in Good : \A u \in Good : u <= s
      IN  IF r1 >= 1 /\ MatchLit(t, j1 + r1, HexTag) /\ Good # {}
          THEN [found |-> TRUE, end |-> TailOf(s0).end,
                OUI |-> TailOf(s0).OUI,
                vendorName |-> SubSeq(t, j3 + s0, LineEnd(t, j3 + s0) - 1),
                vendorAlternateName |-> TailOf(s0).vendorAlternateName]
          ELSE NoMatch

\* ouiExp.FindAllStringSubmatch(text, -1) from position i on: the
\* successive non-overlapping matches, leftmost first.
RECURSIVE FindAllFrom(_, _)
FindAllFrom(t, i) ==
    IF i > Len(t) THEN << >>
    ELSE LET m == MatchAt(t, i)
         IN  IF m.found THEN << m >> \o FindAllFrom(t, m.end)
             ELSE FindAllFrom(t, i + 1)

FindAllStringSubmatch(t) == FindAllFrom(t, 1)

(***************************************************************************)
(* The source file.  Its content is drawn line by line from LineIds; each  *)
(* line is ended by a newline.  LineChars gives the characters the loader  *)
(* reads, LineKind, LinePrefix and LineName the line's place in the record *)
(* format "XX-XX-XX (hex) <vendor_name>" / "XXXXXX (base 16) <alt name>".  *)
(***************************************************************************)
LineIds == {"H", "He", "B", "Bl", "Bd", "G"}

LineChars(id) ==
    CASE id = "H" -> << "A", "A", "-", "B", "B", "-", "C", "C", " ", "(", "h", "e", "x", ")", "\t", "\t", "V", " " >>
      [] id = "He" -> << "A", "A", "-", "B", "B", "-", "C", "C", " ", "(", "h", "e", "x", ")", " " >>
      [] id = "B" -> << "A", "A", "B", "B", "C", "C", " ", "(", "b", "a", "s", "e", " ", "1", "6", ")", "\t", "\t", "W", " " >>
      [] id = "Bl" -> << "a", "a", "b", "b", "c", "c", " ", "(", "b", "a", "s", "e", " ", "1", "6", ")", " ", "X" >>
      [] id = "Bd" -> << "1", "1", "2", "2", "3", "3", " ", "(", "b", "a", "s", "e", " ", "1", "6", ")", " " >>
      [] id = "G" -> << "G", "G", "G", "G", "G", "G", " ", "(", "b", "a", "s", "e", " ", "1", "6", ")", " ", "Y" >>

\* "hdr": a hex header line; "b16": a base-16 line whose prefix is six
\* base-16 digits; "bad": a base-16 line whose prefix is not base 16.
LineKind(id) ==
    CASE id \in {"H", "He"} -> "hdr"
      [] id \in {"B", "Bl", "Bd"} -> "b16"
      [] id = "G" -> "bad"

\* The prefix a base-16 line carries.
LinePrefix(id) ==
    CASE id = "B" -> << "A", "A", "B", "B", "C", "C" >>
      [] id = "Bl" -> << "a", "a", "b", "b", "c", "c" >>
      [] id = "Bd" -> << "1", "1", "2", "2", "3", "3" >>
      [] OTHER -> << >>

\* The (trimmed) name a line carries.
LineName(id) ==
    CASE id = "H" -> << "V" >>
      [] id = "B" -> << "W" >>
      [] id = "Bl" -> << "X" >>
      [] id = "G" -> << "Y" >>
      [] OTHER -> << >>

RECURSIVE JoinLines(_)
JoinLines(ls) ==
    IF ls = << >> THEN << >>
    ELSE LineChars(Head(ls)) \o << NL >> \o JoinLines(Tail(ls))

SeqsUpTo(S, n) == UNION {[1..k -> S] : k \in 0..n}

Unreadable == [readable |-> FALSE, lines |-> << >>]

\* Every file the model loads: a missing file, or at most MaxLines lines.
Files ==
    {Unreadable} \cup {[readable |-> TRUE, lines |-> ls] : ls \in SeqsUpTo(LineIds, MaxLines)}

\* The files of the concurrent specification.
SampleFiles ==
    {Unreadable} \cup
    {[readable |-> TRUE, lines |-> ls] :
        ls \in {<< "H", "B" >>, << "H", "Bl", "He", "B" >>,
                << "He", "B", "H", "Bd" >>}}

\* string(data) of makeMACHashMap.
FileText(f) == JoinLines(f.lines)

(***************************************************************************)
(* The arguments of the requests: the {oui} and {mac} path parameters.     *)
(***************************************************************************)
OUIArgs ==
    { << "A", "A", "B", "B", "C", "C" >>,
      << "a", "a", "b", "b", "c", "c" >>,
      << "A", "a", "B", "b", "C", "c" >>,
      << "1", "1", "2", "2", "3", "3" >>,
      << "A", "A", "B", "B" >>,
      << "A", "A", "B", "B", "C", "C", "1" >>,
      << "A", "A", "-", "B", "B", "-", "C", "C" >>,
      <<  >>,
      << "G", "G", "G", "G", "G", "G" >>,
      << "U00E9", "A", "B", "B", "C", "C" >> }

MACArgs ==
    { << "A", "A", "-", "B", "B", "-", "C", "C", "-", "1", "1", "-", "2", "2", "-", "3", "3" >>,
      << "a", "a", ":", "b", "b", ":", "c", "c", ":", "1", "1", ":", "2", "2", ":", "3", "3" >>,
      << "A", "A", "B", "B", "C", "C", "1", "1", "2", "2", "3", "3" >>,
      << "a", "a", "b", "b", ".", "c", "c", "1", "1", ".", "2", "2", "3", "3" >>,
      << "A", "A", " ", "B", "B", " ", "C", "C", " ", "1", "1", " ", "2", "2", " ", "3", "3" >>,
      << "A", "A", "-", "B", "B", "-", "C", "C" >>,
      << "A", "A", "B", "B", "C", "C", "1", "1", "2", "2", "3", "3", "4", "4" >>,
      <<  >>,
      << "z", "z", "-", "z", "z", "-", "z", "z", "-", "z", "z", "-", "z", "z", "-", "z", "z" >>,
      << "U00E9", "A", "A", "B", "B", "C", "C", "1", "1", "2", "2", "3", "3" >>,
      << "1", "1", "-", "2", "2", "-", "3", "3", "-", "4", "4", "-", "5", "5", "-", "6", "6" >> }

(***************************************************************************)
(* NewOUI, makeMACHashMap's loop, ListOUIs, GetOUI, normalizeMac and       *)
(* GetVendorFromMAC as operators on the values they read.                  *)
(***************************************************************************)
\* NewOUI: log.Fatal(err) ends the process when ParseInt fails; otherwise
\* the prefix is stored as written and the two names are trimmed.
NewOUI(oui, vendorName, vendorAlternateName) ==
    IF ~ParseIntOK(oui) THEN [fatal |-> TRUE]
    ELSE [fatal |-> FALSE,
          m |-> [OUI |-> oui,
                 VendorName |-> TrimSpace(vendorName),
                 VendorAlternateName |-> TrimSpace(vendorAlternateName)]]

\* The loop of makeMACHashMap over the matches: list is what it appends to
\* allOUIs, results the map it builds (a later record of a prefix replaces
\* an earlier one), fatal whether NewOUI ended the process on the way.
RECURSIVE LoadLoop(_, _)
LoadLoop(matches, acc) ==
    IF matches = << >> THEN acc
    ELSE LET match    == Head(matches)
             ouiEntry == NewOUI(match.OUI, match.vendorName, match.vendorAlternateName)
         IN  IF ouiEntry.fatal THEN [acc EXCEPT !.fatal = TRUE]
             ELSE LoadLoop(Tail(matches),
                    [fatal   |-> FALSE,
                     list    |-> Append(acc.list, ouiEntry.m),
                     results |-> [k \in DOMAIN acc.results \cup {ouiEntry.m.OUI} |->
                                    IF k = ouiEntry.m.OUI THEN ouiEntry.m
                                    ELSE acc.results[k]]])

\* The body of makeMACHashMap after a successful os.ReadFile.
LoadText(text) ==
    LoadLoop(FindAllStringSubmatch(text),
             [fatal |-> FALSE, list |-> << >>, results |-> << >>])

\* ListOUIs.
ListOUIs(list) == list

\* GetOUI with strings.HasPrefix in place of ==: a partial match.
GetOUIPartial(list, oui) ==
    LET Hit(o) == /\ Len(ToUpper(oui)) <= Len(o.OUI)
                  /\ SubSeq(o.OUI, 1, Len(oui)) = ToUpper(oui)
        Hits   == {i \in 1..Len(list) : Hit(list[i])}
    IN  IF Hits = {} THEN 0 ELSE CHOOSE i \in Hits : \A j \in Hits : i <= j

\* GetOUI: the index in allOUIs of the first entry whose OUI equals
\* strings.ToUpper(oui); 0 stands for nil.
GetOUI(list, oui) ==
    LET Hits == {i \in 1..Len(list) : list[i].OUI = ToUpper(oui)}
    IN  IF Hits = {} THEN 0 ELSE CHOOSE i \in Hits : \A j \in Hits : i <= j

\* regexp.ReplaceAllString(mac, "") with [^a-zA-Z0-9 ]+ .
RECURSIVE ReplaceAllString(_)
ReplaceAllString(mac) ==
    IF mac = << >> THEN << >>
    ELSE IF MacKeepClass(Head(mac)) THEN << Head(mac) >> \o ReplaceAllString(Tail(mac))
         ELSE ReplaceAllString(Tail(mac))

\* normalizeMac.
normalizeMac(mac) ==
    LET cleaned == ReplaceAllString(mac)
    IN  IF Len(cleaned) # MACLen THEN [err |-> TRUE, mac |-> << >>]
        ELSE [err |-> FALSE, mac |-> cleaned]

\* GetVendorFromMAC.  macToFind[:6] panics when macToFind is shorter than
\* six bytes; the empty string is returned when nothing is found.
GetVendorFromMAC(list, mac) ==
    LET norm   == normalizeMac(mac)
        macOUI == GetOUI(list, SubSeq(norm.mac, 1, OUILen))
    IN  IF norm.err THEN [panic |-> FALSE, vendor |-> << >>]
        ELSE IF Len(norm.mac) < OUILen THEN [panic |-> TRUE, vendor |-> << >>]
        ELSE IF macOUI # 0 THEN [panic |-> FALSE, vendor |-> list[macOUI].VendorName]
        ELSE [panic |-> FALSE, vendor |-> << >>]

(***************************************************************************)
(* The process.                                                            *)
(*   file     the content of oui.txt, or its absence                       *)
(*   pc       "start", "loaded" (makeMACHashMap returned), "serving"       *)
(*            (http.ListenAndServe accepts requests), "exited"             *)
(*   exit     why the process ended: "none", "panic" (os.ReadFile          *)
(*            failed), "fatal" (log.Fatal in NewOUI)                       *)
(*   allOUIs  the package variable allOUIs                                 *)
(*   loads    how many times makeMACHashMap has run                        *)
(*   loaded   what the run of makeMACHashMap appended to allOUIs           *)
(*   reqs     per caller, the request in flight or its response           *)
(***************************************************************************)
VARIABLES file, pc, exit, allOUIs, loads, loaded, reqs

vars == << file, pc, exit, allOUIs, loads, loaded, reqs >>

Nil == [nil |-> TRUE]

Idle == [state |-> "idle"]

Clients == DOMAIN reqs

InitWith(fs, n) ==
    /\ file \in fs
    /\ pc = "start"
    /\ exit = "none"
    /\ allOUIs = << >>
    /\ loads = 0
    /\ loaded = << >>
    /\ reqs = [c \in 1..n |-> Idle]

\* One caller, every file of at most MaxLines lines.
Init == InitWith(Files, 1)

\* NumClients concurrent callers, the sample files.
InitConc == InitWith(SampleFiles, NumClients)

\* main, line 166: makeMACHashMap("oui.txt").
makeMACHashMap ==
    /\ pc = "start"
    /\ loads' = loads + 1
    /\ IF ~file.readable
       THEN /\ pc' = "exited"
            /\ exit' = "panic"
            /\ UNCHANGED << allOUIs, loaded >>
       ELSE LET r == LoadText(FileText(file))
            IN  /\ allOUIs' = allOUIs \o r.list
                /\ loaded' = r.list
                /\ pc' = IF r.fatal THEN "exited" ELSE "loaded"
                /\ exit' = IF r.fatal THEN "fatal" ELSE "none"
    /\ UNCHANGED << file, reqs >>

\* main with the server started before the table is loaded.
ListenBeforeLoad ==
    /\ pc \in {"start", "loaded"}
    /\ pc' = "serving"
    /\ UNCHANGED << file, exit, allOUIs, loads, loaded, reqs >>

\* main, lines 168-176: the routes are mounted and http.ListenAndServe
\* starts to accept requests.
ListenAndServe ==
    /\ pc = "loaded"
    /\ pc' = "serving"
    /\ UNCHANGED << file, exit, allOUIs, loads, loaded, reqs >>

\* The router hands a request to a handler: GET /oui/, GET /oui/{oui} or
\* GET /mac/{mac}.
Receive(c) ==
    /\ pc = "serving"
    /\ reqs[c].state # "pending"
    /\ \E r \in {[op |-> "list", arg |-> << >>]}
               \cup {[op |-> "get", arg |-> a] : a \in OUIArgs}
               \cup {[op |-> "mac", arg |-> a] : a \in MACArgs} :
          reqs' = [reqs EXCEPT ![c] = [state |-> "pending", op |-> r.op, arg |-> r.arg]]
    /\ UNCHANGED << file, pc, exit, allOUIs, loads, loaded >>

Respond(c, resp) ==
    /\ reqs' = [reqs EXCEPT ![c] = [state |-> "done", op |-> reqs[c].op,
                                    arg |-> reqs[c].arg, resp |-> resp]]
    /\ UNCHANGED << file, pc, exit, loads, loaded >>

\* What OUIHandler.ListOUIS answers.
ListResponse(list) ==
    [status |-> StatusOK, panic |-> FALSE, value |-> ListOUIs(list)]

\* What OUIHandler.GetOUI answers: 404 when GetOUI returns nil; the
\* entry (or null) is encoded in both cases.
GetResponse(list, arg) ==
    LET oui == GetOUI(list, arg)
    IN  [status |-> IF oui = 0 THEN StatusNotFound ELSE StatusOK,
         panic  |-> FALSE,
         value  |-> IF oui = 0 THEN Nil ELSE list[oui]]

\* What MACHandler.GetOUIFromMAC answers: 404 when GetVendorFromMAC
\* returns the empty string; the string is encoded in both cases.
MACResponse(list, arg) ==
    LET v == GetVendorFromMAC(list, arg)
    IN  [status |-> IF v.vendor = << >> THEN StatusNotFound ELSE StatusOK,
         panic  |-> v.panic,
         value  |-> v.vendor]

\* OUIHandler.ListOUIS as it would be if it loaded the file again.
ListOUISReloading(c) ==
    /\ reqs[c].state = "pending" /\ reqs[c].op = "list"
    /\ allOUIs' = allOUIs \o LoadText(FileText(file)).list
    /\ Respond(c, ListResponse(allOUIs'))

\* OUIHandler.ListOUIS.
ListOUIS(c) ==
    /\ reqs[c].state = "pending" /\ reqs[c].op = "list"
    /\ Respond(c, ListResponse(allOUIs))
    /\ UNCHANGED allOUIs

\* OUIHandler.GetOUI.
GetOUIHandler(c) ==
    /\ reqs[c].state = "pending" /\ reqs[c].op = "get"
    /\ Respond(c, GetResponse(allOUIs, reqs[c].arg))
    /\ UNCHANGED allOUIs

\* MACHandler.GetOUIFromMAC.
GetOUIFromMAC(c) ==
    /\ reqs[c].state = "pending" /\ reqs[c].op = "mac"
    /\ Respond(c, MACResponse(allOUIs, reqs[c].arg))
    /\ UNCHANGED allOUIs

Next ==
    \/ makeMACHashMap
    \/ ListenAndServe
    \/ \E c \in Clients : Receive(c)
    \/ \E c \in Clients : ListOUIS(c)
    \/ \E c \in Clients : GetOUIHandler(c)
    \/ \E c \in Clients : GetOUIFromMAC(c)

Spec == Init /\ [][Next]_vars

SpecConc == InitConc /\ [][Next]_vars

(***************************************************************************)
(* Notions the properties are stated with.                                 *)
(***************************************************************************)
ToLowerChar(c) ==
    IF \E i \in DOMAIN UpperLetters : UpperLetters[i] = c
    THEN LowerLetters[CHOOSE i \in DOMAIN UpperLetters : UpperLetters[i] = c]
    ELSE c

\* a and b are equal up to the case of their ASCII letters.
EqualFold(a, b) ==
    /\ Len(a) = Len(b)
    /\ \A i \in 1..Len(a) : ToLowerChar(a[i]) = ToLowerChar(b[i])

\* s without the characters that are not ASCII letters or digits.
RECURSIVE StripNonAlnum(_)
StripNonAlnum(s) ==
    IF s = << >> THEN << >>
    ELSE IF AlnumClass(Head(s)) THEN << Head(s) >> \o StripNonAlnum(Tail(s))
         ELSE StripNonAlnum(Tail(s))

\* The entries of the two-line records of a file, in order: a header line
\* immediately followed by a base-16 line with a base-16 prefix.
RECURSIVE ValidRecords(_)
ValidRecords(ls) ==
    IF Len(ls) < 2 THEN << >>
    ELSE IF LineKind(ls[1]) = "hdr" /\ LineKind(ls[2]) = "b16"
         THEN << [OUI |-> LinePrefix(ls[2]),
                  VendorName |-> LineName(ls[1]),
                  VendorAlternateName |-> LineName(ls[2])] >>
              \o ValidRecords(Tail(Tail(ls)))
         ELSE ValidRecords(Tail(ls))

Done(c, op) == reqs[c].state = "done" /\ reqs[c].op = op

Loaded == pc \in {"loaded", "serving"}

\* What a request answers when it runs alone on the registry list.
ResponseFor(list, op, arg) ==
    CASE op = "list" -> ListResponse(list)
      [] op = "get" -> GetResponse(list, arg)
      [] op = "mac" -> MACResponse(list, arg)

(***************************************************************************)
(* The properties.                                                         *)
(***************************************************************************)
\* C1: after load, for every prefix p of an entry the loader accepted and
\* every argument q equal to p up to letter case, get(q) finds an entry
\* whose prefix is p.
C1_GetFindsLoadedPrefix ==
    \A c \in Clients : Done(c, "get") =>
        \A i \in 1..Len(allOUIs) :
            EqualFold(allOUIs[i].OUI, reqs[c].arg) =>
                /\ reqs[c].resp.status = StatusOK
                /\ reqs[c].resp.value # Nil
                /\ reqs[c].resp.value.OUI = allOUIs[i].OUI

\* C2: get matches exactly: when no entry's prefix equals the argument up
\* to letter case, get answers NotFound (nil, status 404).
C2_GetExactMatchOnly ==
    \A c \in Clients : Done(c, "get") =>
        ((~\E i \in 1..Len(allOUIs) : EqualFold(allOUIs[i].OUI, reqs[c].arg))
            => /\ reqs[c].resp.status = StatusNotFound
               /\ reqs[c].resp.value = Nil)

\* A get of AABB, a proper prefix of the loaded prefix AABBCC, is answered
\* NotFound.
C2_Witness ==
    \E c \in Clients :
        /\ Done(c, "get")
        /\ reqs[c].arg = << "A", "A", "B", "B" >>
        /\ \E i \in 1..Len(allOUIs) :
              allOUIs[i].OUI = << "A", "A", "B", "B", "C", "C" >>
        /\ reqs[c].resp.status = StatusNotFound

\* C3: every entry e of list_all() is what get(e.prefix) returns: found,
\* with e's prefix, vendor name and alternate name.
C3_ListedEntryRetrievable ==
    \A c \in Clients : Done(c, "get") =>
        \A i \in 1..Len(allOUIs) :
            reqs[c].arg = allOUIs[i].OUI =>
                /\ reqs[c].resp.status = StatusOK
                /\ reqs[c].resp.value = allOUIs[i]

\* C4: list_all() answers exactly the entries of the file's valid two-line
\* records, one each, in the order of the file.
C4_ListIsValidRecordsInOrder ==
    \A c \in Clients : Done(c, "list") =>
        /\ reqs[c].resp.status = StatusOK
        /\ reqs[c].resp.value = ValidRecords(file.lines)

\* C5: two addresses that are equal once the characters other than ASCII
\* letters and digits are removed and letter case is ignored resolve to
\* the same answer.
C5_ResolveIgnoresDelimitersAndCase ==
    \A c, d \in Clients :
        (/\ Done(c, "mac") /\ Done(d, "mac")
         /\ EqualFold(StripNonAlnum(reqs[c].arg), StripNonAlnum(reqs[d].arg)))
        => reqs[c].resp = reqs[d].resp

\* C6: resolve answers NotFound (404) exactly when the normalized address
\* is not 12 characters long or get finds nothing for its first 6
\* characters; otherwise it answers the entry's vendor name as found, the
\* empty name included.
C6_ResolveNotFoundIff ==
    \A c \in Clients : Done(c, "mac") =>
        LET norm == normalizeMac(reqs[c].arg)
            oui  == GetOUI(allOUIs, SubSeq(norm.mac, 1, OUILen))
        IN  IF norm.err \/ oui = 0
            THEN reqs[c].resp.status = StatusNotFound
            ELSE /\ reqs[c].resp.status = StatusOK
                 /\ reqs[c].resp.value = allOUIs[oui].VendorName

\* C7: the process ends only when the file cannot be read: a readable
\* file is loaded whatever its records are, and every request is answered
\* with a value, never by a panic.
C7_OnlyReadFailureTerminates ==
    /\ pc = "exited" => (exit = "panic" /\ ~file.readable)
    /\ (file.readable /\ loads >= 1) => Loaded
    /\ \A c \in Clients : reqs[c].state = "done" =>
          /\ ~reqs[c].resp.panic
          /\ reqs[c].resp.status \in {StatusOK, StatusNotFound}

\* A file with a record whose prefix is not base 16 has been loaded and a
\* resolve of the empty address has been answered.
C7_Witness ==
    /\ pc = "serving"
    /\ \E i \in 1..Len(file.lines) : LineKind(file.lines[i]) = "bad"
    /\ \E c \in Clients :
          /\ Done(c, "mac")
          /\ reqs[c].arg = << >>
          /\ reqs[c].resp.status = StatusNotFound

\* C8: the loader runs at most once, it has run (and read the file) before
\* the process is loaded or serving, requests exist only while serving,
\* and a process whose file cannot be read exits without ever serving.
C8_LoadOnceBeforeServing ==
    /\ loads <= 1
    /\ Loaded => (loads = 1 /\ file.readable)
    /\ (\E c \in Clients : reqs[c].state # "idle") => pc = "serving"
    /\ (~file.readable /\ loads = 1) => pc = "exited"

\* A request has been answered by the serving process after its one load.
C8_Witness ==
    /\ pc = "serving"
    /\ loads = 1
    /\ \E c \in Clients : reqs[c].state = "done" /\ reqs[c].resp.status = StatusOK

\* C9: once loaded the registry is what the load produced, whatever
\* requests have run or are running, and every answer is the one the
\* request gets when it runs alone on the loaded registry.
C9_RegistryImmutable ==
    Loaded =>
        /\ allOUIs = loaded
        /\ \A c \in Clients : reqs[c].state = "done" =>
              reqs[c].resp = ResponseFor(loaded, reqs[c].op, reqs[c].arg)

\* Two callers have been answered by the serving process, one found and
\* one NotFound.
C9_Witness ==
    /\ pc = "serving"
    /\ allOUIs # << >>
    /\ \E c, d \in Clients :
          /\ c # d
          /\ reqs[c].state = "done" /\ reqs[c].resp.status = StatusOK
          /\ reqs[d].state = "done" /\ reqs[d].resp.status = StatusNotFound

\* C10: after load no two entries of the registry share a prefix.
C10_UniquePrefix ==
    Loaded =>
        \A i, j \in 1..Len(allOUIs) :
            i # j => allOUIs[i].OUI # allOUIs[j].OUI

=============================================================================
